---- MODULE Spec2Model ----
(***************************************************************************)
(* A model of dashboard.py, a Streamlit script.  Streamlit executes the    *)
(* script file from its first line to its last for every render pass, in   *)
(* a fresh __main__ namespace; only the st.cache_data store outlives a     *)
(* pass.  Texts are sequences of one-character strings, a Confidence is    *)
(* the float counted in tenths (50.0 is 500), None and NaN are <<>>.       *)
(***************************************************************************)
EXTENDS Integers, Sequences, FiniteSets, TLC

VARIABLES
    now,                  \* the wall clock, seconds since 00:00:00 CDT of a fall-back day
    ticks,                \* clock steps taken so far
    projections_csv,      \* nba_player_best_ev_projections.csv on disk
    results_csv,          \* nba_projection_results.csv on disk
    LAST_UPDATED,         \* the module global of line 8
    cache,                \* the st.cache_data entry of load_projections_data
    pc,                   \* position of the render pass
    error,                \* the unhandled exception that ended the pass, or None
    messages,             \* st.error / st.warning elements shown in this pass
    projections_data, last_updated, results_data,
    player_filter, metric_filter, sportsbook_filter, confidence_filter,
    filtered_projections, indexer, sorted_projections,
    download, top_bets, summary,
    writes,               \* writes of LAST_UPDATED made by run_streamlit_app in this pass
    returned,             \* what the latest call of load_projections_data returned
    before,               \* what the call before that one returned
    tables, hashes        \* inputs and outputs of calculate_data_hash, checked on its own

vars == <<now, ticks, projections_csv, results_csv, LAST_UPDATED, cache, pc, error,
          messages, projections_data, last_updated, results_data, player_filter,
          metric_filter, sportsbook_filter, confidence_filter, filtered_projections,
          indexer, sorted_projections, download, top_bets, summary, writes, returned,
          before, tables, hashes>>

-----------------------------------------------------------------------------
(* Bounds of the model *)

MaxTicks == 3
MaxRows == 3
MaxResults == 4
MaxHashRows == 2

-----------------------------------------------------------------------------
(* Program constants *)

TTL == 60
TOP_N == 10
SLIDER_MIN == 0
SLIDER_MAX == 100
FOLD_AT == 7200
HOUR == 3600
MINUTE == 60
DAY == 86400

None == <<>>
NaN == <<>>

-----------------------------------------------------------------------------
(* Texts *)

Printable ==
 <<" ", "!", "\"", "#", "$", "%", "&", "'", "(", ")", "*", "+", ",", "-", ".", "/",
   "0", "1", "2", "3", "4", "5", "6", "7", "8", "9", ":", ";", "<", "=", ">", "?",
   "@", "A", "B", "C", "D", "E", "F", "G", "H", "I", "J", "K", "L", "M", "N", "O",
   "P", "Q", "R", "S", "T", "U", "V", "W", "X", "Y", "Z", "[", "\\", "]", "^", "_">>

LowerCase ==
 <<"a", "b", "c", "d", "e", "f", "g", "h", "i", "j", "k", "l", "m", "n", "o", "p",
   "q", "r", "s", "t", "u", "v", "w", "x", "y", "z">>

\* str.encode(): the UTF-8 byte of an ASCII character (codes 10, 32..95, 97..122)
Ord(c) ==
    IF c = "\n" THEN 10
    ELSE IF \E i \in 1..Len(LowerCase) : LowerCase[i] = c
         THEN 96 + (CHOOSE i \in 1..Len(LowerCase) : LowerCase[i] = c)
         ELSE 31 + (CHOOSE i \in 1..Len(Printable) : Printable[i] = c)

Encode(text) == [k \in 1..Len(text) |-> Ord(text[k])]

\* case folding of re.IGNORECASE on ASCII
Lower(c) ==
    LET o == Ord(c) IN IF o >= 65 /\ o <= 90 THEN LowerCase[o - 64] ELSE c

Digit(d) == Printable[d + 17]

RECURSIVE Digits(_)
Digits(n) == IF n < 10 THEN <<Digit(n)>> ELSE Digits(n \div 10) \o <<Digit(n % 10)>>

DigitValue(c) == Ord(c) - 48

RECURSIVE ParseInt(_)
ParseInt(text) ==
    IF text = <<>> THEN 0
    ELSE 10 * ParseInt(SubSeq(text, 1, Len(text) - 1)) + DigitValue(text[Len(text)])

RECURSIVE Join(_, _)
Join(cells, sep) ==
    IF cells = <<>> THEN <<>>
    ELSE IF Len(cells) = 1 THEN cells[1]
    ELSE cells[1] \o sep \o Join(Tail(cells), sep)

RECURSIVE Concat(_)
Concat(texts) == IF texts = <<>> THEN <<>> ELSE Head(texts) \o Concat(Tail(texts))

RECURSIVE SeqsUpTo(_, _)
SeqsUpTo(S, n) ==
    IF n = 0 THEN {<<>>}
    ELSE LET shorter == SeqsUpTo(S, n - 1)
         IN shorter \cup {Append(s, x) : s \in {t \in shorter : Len(t) = n - 1}, x \in S}

-----------------------------------------------------------------------------
(* hashlib.md5: RFC 1321 on 32-bit words, a word kept as <<high, low>> 16-bit halves *)

HALF == 65536

RECURSIVE AndBits(_, _, _)
AndBits(a, b, n) ==
    IF n = 0 THEN 0 ELSE (a % 2) * (b % 2) + 2 * AndBits(a \div 2, b \div 2, n - 1)

AndNibble == [a \in 0..15 |-> [b \in 0..15 |-> AndBits(a, b, 4)]]

And16(a, b) ==
    AndNibble[a % 16][b % 16]
    + 16 * AndNibble[(a \div 16) % 16][(b \div 16) % 16]
    + 256 * AndNibble[(a \div 256) % 16][(b \div 256) % 16]
    + 4096 * AndNibble[a \div 4096][b \div 4096]

And32(a, b) == <<And16(a[1], b[1]), And16(a[2], b[2])>>
Not32(a) == <<HALF - 1 - a[1], HALF - 1 - a[2]>>
Or32(a, b) == LET c == And32(a, b) IN <<a[1] + b[1] - c[1], a[2] + b[2] - c[2]>>
Xor32(a, b) == LET c == And32(a, b) IN <<a[1] + b[1] - 2 * c[1], a[2] + b[2] - 2 * c[2]>>
Add32(a, b) ==
    LET lo == a[2] + b[2] IN <<(a[1] + b[1] + (lo \div HALF)) % HALF, lo % HALF>>

RotL32(a, s) ==
    LET w == IF s >= 16 THEN <<a[2], a[1]>> ELSE a
        r == s % 16
    IN IF r = 0 THEN w
       ELSE <<((w[1] * (2 ^ r)) % HALF) + (w[2] \div (2 ^ (16 - r))),
              ((w[2] * (2 ^ r)) % HALF) + (w[1] \div (2 ^ (16 - r)))>>

\* floor(abs(sin(i)) * 2^32), i = 1..64
MD5_K == <<
 <<55146,42104>>, <<59591,46934>>, <<9248,28891>>, <<49597,52974>>, <<62844,4015>>,
 <<18311,50730>>, <<43056,17939>>, <<64838,38145>>, <<27008,39128>>, <<35652,63407>>,
 <<65535,23473>>, <<35164,55230>>, <<27536,4386>>, <<64920,29075>>, <<42617,17294>>,
 <<18868,2081>>, <<63006,9570>>, <<49216,45888>>, <<9822,23121>>, <<59830,51114>>,
 <<54831,4189>>, <<580,5203>>, <<55457,59009>>, <<59347,64456>>, <<8673,52710>>,
 <<49975,2006>>, <<62677,3463>>, <<17754,5357>>, <<43491,59653>>, <<64751,41976>>,
 <<26479,729>>, <<36138,19594>>, <<65530,14658>>, <<34673,63105>>, <<28061,24866>>,
 <<64997,14348>>, <<42174,59972>>, <<19422,53161>>, <<63163,19296>>, <<48831,48240>>,
 <<10395,32454>>, <<60065,10234>>, <<54511,12421>>, <<1160,7429>>, <<55764,53305>>,
 <<59099,39397>>, <<8098,31992>>, <<50348,22117>>, <<62505,8772>>, <<17194,65431>>,
 <<43924,9127>>, <<64659,41017>>, <<25947,22979>>, <<36620,52370>>, <<65519,62589>>,
 <<34180,24017>>, <<28584,32335>>, <<65068,59104>>, <<41729,17172>>, <<19976,4513>>,
 <<63315,32386>>, <<48442,62005>>, <<10967,53947>>, <<60294,54161>> >>

MD5_S == <<7, 12, 17, 22, 7, 12, 17, 22, 7, 12, 17, 22, 7, 12, 17, 22,
           5, 9, 14, 20, 5, 9, 14, 20, 5, 9, 14, 20, 5, 9, 14, 20,
           4, 11, 16, 23, 4, 11, 16, 23, 4, 11, 16, 23, 4, 11, 16, 23,
           6, 10, 15, 21, 6, 10, 15, 21, 6, 10, 15, 21, 6, 10, 15, 21>>

\* 0x67452301, 0xefcdab89, 0x98badcfe, 0x10325476
MD5_IV == << <<26437, 8961>>, <<61389, 43913>>, <<39098, 56574>>, <<4146, 21622>> >>

\* the round function of round i (from 0)
RoundF(i, b, c, d) ==
    IF i < 16 THEN Or32(And32(b, c), And32(Not32(b), d))
    ELSE IF i < 32 THEN Or32(And32(d, b), And32(Not32(d), c))
    ELSE IF i < 48 THEN Xor32(Xor32(b, c), d)
    ELSE Xor32(c, Or32(b, Not32(d)))

RoundG(i) ==
    IF i < 16 THEN i
    ELSE IF i < 32 THEN (5 * i + 1) % 16
    ELSE IF i < 48 THEN (3 * i + 5) % 16
    ELSE (7 * i) % 16

\* one round on st = <<a, b, c, d>> with m, the 16 words of the block
Round(st, m, i) ==
    LET f == Add32(Add32(Add32(RoundF(i, st[2], st[3], st[4]), st[1]), MD5_K[i + 1]),
                   m[RoundG(i) + 1])
    IN <<st[4], Add32(st[2], RotL32(f, MD5_S[i + 1])), st[2], st[3]>>

\* rounds lo..hi-1; the first half is computed before the second half starts
RECURSIVE Rounds(_, _, _, _)
Rounds(st, m, lo, hi) ==
    IF hi = lo + 1 THEN Round(st, m, lo)
    ELSE CHOOSE r \in {Rounds(half, m, (lo + hi) \div 2, hi) :
                       half \in {Rounds(st, m, lo, (lo + hi) \div 2)}} : TRUE

\* the message, 0x80, zeros up to 56 mod 64, the bit length in 64 bits little-endian
Pad(bytes) ==
    LET n == Len(bytes)
        bits == 8 * n
    IN bytes \o <<128>> \o [k \in 1..((55 - n) % 64) |-> 0]
       \o <<bits % 256, (bits \div 256) % 256, (bits \div 65536) % 256, 0, 0, 0, 0, 0>>

WordAt(p, k) == <<p[k + 2] + 256 * p[k + 3], p[k] + 256 * p[k + 1]>>

Block(p, j) == [w \in 1..16 |-> WordAt(p, 64 * j + 4 * (w - 1) + 1)]

AddState(st, r) ==
    <<Add32(st[1], r[1]), Add32(st[2], r[2]), Add32(st[3], r[3]), Add32(st[4], r[4])>>

\* blocks j, j+1, ... of the padded message p
RECURSIVE Blocks(_, _, _)
Blocks(st, p, j) ==
    IF 64 * j >= Len(p) THEN st
    ELSE CHOOSE r \in {Blocks(next, p, j + 1) :
                       next \in {AddState(st, Rounds(st, m, 0, 64)) : m \in {Block(p, j)}}} :
             TRUE

WordBytes(w) == <<w[2] % 256, w[2] \div 256, w[1] % 256, w[1] \div 256>>

HexDigits == <<"0", "1", "2", "3", "4", "5", "6", "7", "8", "9", "a", "b", "c", "d", "e", "f">>

RECURSIVE HexOf(_)
HexOf(bs) ==
    IF bs = <<>> THEN <<>>
    ELSE <<HexDigits[(Head(bs) \div 16) + 1], HexDigits[(Head(bs) % 16) + 1]>>
         \o HexOf(Tail(bs))

md5_hexdigest(bytes) ==
    CHOOSE h \in {HexOf(WordBytes(st[1]) \o WordBytes(st[2]) \o WordBytes(st[3])
                        \o WordBytes(st[4])) :
                  st \in {CHOOSE r \in {Blocks(MD5_IV, p, 0) : p \in {Pad(bytes)}} : TRUE}} : TRUE

-----------------------------------------------------------------------------
(* pandas: frames, read_csv, the Confidence conversion, to_csv *)

\* pd.DataFrame(): no columns, no rows
EmptyFrame == [columns |-> FALSE, rows |-> <<>>]

Frame(rows) == [columns |-> TRUE, rows |-> rows]

\* DataFrame.empty
IsEmpty(frame) == ~frame.columns \/ frame.rows = <<>>

AbsentFile == [exists |-> FALSE, lines |-> <<>>]

File(lines) == [exists |-> TRUE, lines |-> lines]

\* pd.read_csv of the projections file: the header names the four columns, an empty
\* field is read as NaN
read_projections_csv(file) ==
    Frame([k \in 1..Len(file.lines) |->
              [PlayerName |-> file.lines[k][1], Metric |-> file.lines[k][2],
               Bookmaker |-> file.lines[k][3], Confidence |-> file.lines[k][4]]])

read_results_csv(file) ==
    Frame([k \in 1..Len(file.lines) |-> [Result |-> file.lines[k]]])

RECURSIVE rstrip(_, _)
rstrip(text, c) ==
    IF text /= <<>> /\ text[Len(text)] = c THEN rstrip(SubSeq(text, 1, Len(text) - 1), c)
    ELSE text

DotAt(text) ==
    IF \E k \in 1..Len(text) : text[k] = "."
    THEN CHOOSE k \in 1..Len(text) : text[k] = "."
    ELSE 0

\* float(text), in tenths: digits, then optionally a point and one more digit
to_float(text) ==
    LET d == DotAt(text)
    IN IF d = 0 THEN 10 * ParseInt(text)
       ELSE 10 * ParseInt(SubSeq(text, 1, d - 1))
            + (IF d = Len(text) THEN 0 ELSE DigitValue(text[d + 1]))

\* data['Confidence'].str.rstrip('%').astype(float)
convert_confidence(frame) ==
    [frame EXCEPT !.rows =
        [k \in 1..Len(frame.rows) |->
            [frame.rows[k] EXCEPT !.Confidence = to_float(rstrip(@, "%"))]]]

\* repr of a float that has one decimal place
float_repr(c) == Digits(c \div 10) \o <<".">> \o <<Digit(c % 10)>>

HeaderLine ==
    Join(<< <<"P", "l", "a", "y", "e", "r", " ", "N", "a", "m", "e">>,
            <<"M", "e", "t", "r", "i", "c">>,
            <<"B", "o", "o", "k", "m", "a", "k", "e", "r">>,
            <<"C", "o", "n", "f", "i", "d", "e", "n", "c", "e">> >>, <<",">>)

RowLine(row) ==
    Join(<<row.PlayerName, row.Metric, row.Bookmaker, float_repr(row.Confidence)>>, <<",">>)

\* a serialisation that puts the lines in a fixed order, whatever the row order
to_csv_lines_in_fixed_order(frame) ==
    IF ~frame.columns THEN <<"\n">>
    ELSE LET n == Len(frame.rows)
             orders == {p \in [1..n -> 1..n] : \A i, j \in 1..n : i /= j => p[i] /= p[j]}
             rows == CHOOSE r \in {[i \in 1..n |-> frame.rows[p[i]]] : p \in orders} : TRUE
         IN Concat(<<HeaderLine \o <<"\n">>>>
                   \o [k \in 1..n |-> RowLine(rows[k]) \o <<"\n">>])

\* DataFrame.to_csv(index=False): the header line, then a line per row in row order
to_csv(frame) ==
    IF ~frame.columns THEN <<"\n">>
    ELSE Concat(<<HeaderLine \o <<"\n">>>>
                \o [k \in 1..Len(frame.rows) |-> RowLine(frame.rows[k]) \o <<"\n">>])

calculate_data_hash(data) == md5_hexdigest(Encode(to_csv(data)))

-----------------------------------------------------------------------------
(* The inputs the model draws *)

PJ == <<"P", ".", "J">>
PAJ == <<"P", "a", "J">>
PTS == <<"P", "T", "S">>
REB == <<"R", "E", "B">>
DK == <<"D", "K">>
FD == <<"F", "D">>

Row(name, metric, book, confidence) ==
    [PlayerName |-> name, Metric |-> metric, Bookmaker |-> book, Confidence |-> confidence]

\* the projections file: FileB is FileA with one cell changed, FileC is FileA with
\* one cell rewritten to another spelling of the same number
FileA == File(<< <<PJ, PTS, DK, <<"5", "0", "%">> >>,
                 <<PAJ, PTS, DK, <<"9", "0", ".", "5", "%">> >> >>)
FileB == File(<< <<PJ, PTS, DK, <<"7", "5", "%">> >>,
                 <<PAJ, PTS, DK, <<"9", "0", ".", "5", "%">> >> >>)
FileC == File(<< <<PJ, PTS, DK, <<"5", "0", ".", "0", "%">> >>,
                 <<PAJ, PTS, DK, <<"9", "0", ".", "5", "%">> >> >>)

ProjectionsFiles == {AbsentFile, FileA, FileB, FileC}

ResultsFiles == {AbsentFile, File(<<"Win", "Loss", "Void">>)}

\* time passes in steps of half a cache lifetime or of an hour
Durations == {TTL \div 2, HOUR}

\* the clock starts an hour and a cache lifetime before it is set back
StartTime == FOLD_AT - HOUR - TTL

\* what the sidebar widgets can return
Patterns == {<<>>, <<"a", "j">>, <<"p", ".", "j">>, <<"x">>}
ConfidenceRanges ==
    {<<SLIDER_MIN, SLIDER_MAX>>, <<SLIDER_MIN, 50>>, <<50, SLIDER_MAX>>}

\* frames of the filter and the sort
RowPool ==
    {Row(PJ, PTS, DK, 500), Row(PAJ, REB, DK, 500), Row(NaN, PTS, FD, 1000),
     Row(PAJ, PTS, FD, 0), Row(PJ, REB, FD, 755), Row(PAJ, REB, DK, 1200)}
FilterFrames == {Frame(rows) : rows \in SeqsUpTo(RowPool, MaxRows)}

\* tables of the Result column
ResultValues == {"Win", "Loss", "Push", "Void"}
ResultFrames ==
    {Frame([k \in 1..Len(rs) |-> [Result |-> rs[k]]]) : rs \in SeqsUpTo(ResultValues, MaxResults)}

\* frames of the fingerprint
HashPool == {Row(PJ, PTS, DK, 500), Row(PAJ, REB, FD, 905), Row(NaN, PTS, DK, 500)}
HashFrames == {Frame(rows) : rows \in SeqsUpTo(HashPool, MaxHashRows)}

KnownFrames ==
    HashFrames
    \cup {convert_confidence(read_projections_csv(f)) : f \in ProjectionsFiles \ {AbsentFile}}

\* calculate_data_hash on the frames the model draws, computed once
HashTable == {<<f, calculate_data_hash(f)>> : f \in KnownFrames}

HashOf(data) ==
    IF \E e \in HashTable : e[1] = data
    THEN (CHOOSE e \in HashTable : e[1] = data)[2]
    ELSE calculate_data_hash(data)

-----------------------------------------------------------------------------
(* datetime.now(CENTRAL_TZ).strftime("%Y-%m-%d %I:%M:%S %p") *)

\* US/Central: daylight time until 02:00, then the clock is set back one hour
LocalSeconds(t) == IF t < FOLD_AT THEN t ELSE t - HOUR

\* <<%Y-%m-%d as the day number, %I, %M, %S, %p>>: no UTC offset is printed
strftime(t) ==
    LET l == LocalSeconds(t)
        s == l % DAY
        h == s \div HOUR
    IN <<l \div DAY, ((h + 11) % 12) + 1, (s % HOUR) \div MINUTE, s % MINUTE,
         IF h < 12 THEN "AM" ELSE "PM">>

-----------------------------------------------------------------------------
(* load_projections_data, lines 26-52 *)

NoFreshness == [hash |-> None, timestamp |-> None]

\* line 44 with the comparison turned round
HashChanged_inverted(stored, current_hash) == stored = current_hash

\* line 44
HashChanged(stored, current_hash) == stored /= current_hash

\* the function body with the stamp also taken in the except branch
load_projections_data_stamps_absent(file, LU, t) ==
    IF ~file.exists
    THEN [data |-> EmptyFrame, timestamp |-> None,
          LAST_UPDATED |-> [hash |-> None, timestamp |-> strftime(t)],
          messages |-> {"Projections CSV file not found"}, wrote |-> TRUE]
    ELSE LET data == convert_confidence(read_projections_csv(file))
             current_hash == HashOf(data)
             changed == HashChanged(LU.hash, current_hash)
             LU2 == IF changed
                    THEN [hash |-> current_hash, timestamp |-> strftime(t)]
                    ELSE LU
         IN [data |-> data, timestamp |-> LU2.timestamp, LAST_UPDATED |-> LU2,
             messages |-> {}, wrote |-> changed]

\* the function body, run on a cache miss
load_projections_data(file, LU, t) ==
    IF ~file.exists
    THEN [data |-> EmptyFrame, timestamp |-> None, LAST_UPDATED |-> LU,
          messages |-> {"Projections CSV file not found"}, wrote |-> FALSE]
    ELSE LET data == convert_confidence(read_projections_csv(file))
             current_hash == HashOf(data)
             changed == HashChanged(LU.hash, current_hash)
             LU2 == IF changed
                    THEN [hash |-> current_hash, timestamp |-> strftime(t)]
                    ELSE LU
         IN [data |-> data, timestamp |-> LU2.timestamp, LAST_UPDATED |-> LU2,
             messages |-> {}, wrote |-> changed]

\* st.cache_data(ttl=60): an entry answers the calls made before it is TTL seconds old
CacheHit(c, t) == c /= None /\ t < c[1].expires

\* load_results_data, lines 55-61
load_results_data(file) ==
    IF ~file.exists
    THEN [data |-> EmptyFrame, messages |-> {"Results CSV file not found"}]
    ELSE [data |-> read_results_csv(file), messages |-> {}]

-----------------------------------------------------------------------------
(* calculate_win_loss_summary, lines 64-80 *)

RECURSIVE GCD(_, _)
GCD(a, b) == IF b = 0 THEN a ELSE GCD(b, a % b)

\* an exact quotient n / d, in lowest terms
Ratio(n, d) == LET g == GCD(n, d) IN <<n \div g, d \div g>>

RECURSIVE CountResult(_, _)
CountResult(rows, value) ==
    IF rows = <<>> THEN 0
    ELSE (IF Head(rows).Result = value THEN 1 ELSE 0) + CountResult(Tail(rows), value)

\* the summary with every row taken into the total
calculate_win_loss_summary_all_rows(data) ==
    IF IsEmpty(data) THEN None
    ELSE LET win_count == CountResult(data.rows, "Win")
             loss_count == CountResult(data.rows, "Loss")
             push_count == CountResult(data.rows, "Push")
             total == Len(data.rows)
         IN <<[Wins |-> win_count, Losses |-> loss_count, Pushes |-> push_count,
               WinPercentage |-> IF total > 0 THEN Ratio(win_count * 100, total)
                                 ELSE Ratio(0, 1)]>>

calculate_win_loss_summary(data) ==
    IF IsEmpty(data) THEN None
    ELSE LET win_count == CountResult(data.rows, "Win")
             loss_count == CountResult(data.rows, "Loss")
             push_count == CountResult(data.rows, "Push")
             total == win_count + loss_count + push_count
         IN <<[Wins |-> win_count, Losses |-> loss_count, Pushes |-> push_count,
               WinPercentage |-> IF total > 0 THEN Ratio(win_count * 100, total)
                                 ELSE Ratio(0, 1)]>>

-----------------------------------------------------------------------------
(* The filters and the sort, lines 119-127 *)

\* re.search(pat, text, re.IGNORECASE) for a pattern of literals and the wildcard "."
MatchAt(pat, text, i) ==
    \A j \in 1..Len(pat) :
        IF pat[j] = "." THEN text[i + j - 1] /= "\n"
        ELSE Lower(pat[j]) = Lower(text[i + j - 1])

re_search(pat, text) == \E i \in 1..(Len(text) - Len(pat) + 1) : MatchAt(pat, text, i)

\* Series.str.contains(pat, case=False, na=False), regex=True by default
str_contains(name, pat) == IF name = NaN THEN FALSE ELSE re_search(pat, name)

\* Series.between(lo, hi, inclusive="neither")
between_exclusive(confidence, lo, hi) == 10 * lo < confidence /\ confidence < 10 * hi

\* Series.between(lo, hi), inclusive on both sides; the slider gives whole percents
between(confidence, lo, hi) == 10 * lo <= confidence /\ confidence <= 10 * hi

RowPasses(row, pat, metrics, books, range) ==
    /\ str_contains(row.PlayerName, pat)
    /\ row.Metric \in metrics
    /\ row.Bookmaker \in books
    /\ between(row.Confidence, range[1], range[2])

\* a column whose every field is empty is read as float64, and .str raises on it
NameColumnIsFloat(frame) ==
    frame.rows /= <<>> /\ \A k \in 1..Len(frame.rows) : frame.rows[k].PlayerName = NaN

Unique(frame, column) ==
    IF IsEmpty(frame) THEN {}
    ELSE {frame.rows[k][column] : k \in 1..Len(frame.rows)}

IndexOrders(n) == {p \in [1..n -> 1..n] : \A i, j \in 1..n : i /= j => p[i] /= p[j]}

\* sort_values(by="Confidence") with ascending left at its default
SortIndexers_ascending(rows) ==
    {p \in IndexOrders(Len(rows)) :
        \A i \in 1..(Len(rows) - 1) : rows[p[i]].Confidence <= rows[p[i + 1]].Confidence}

\* sort_values(by="Confidence", ascending=False) with the default kind="quicksort":
\* every order of the rows that is descending in Confidence; ties in any order
SortIndexers(rows) ==
    {p \in IndexOrders(Len(rows)) :
        \A i \in 1..(Len(rows) - 1) : rows[p[i]].Confidence >= rows[p[i + 1]].Confidence}

Take(rows, p) == [i \in 1..Len(rows) |-> rows[p[i]]]

\* DataFrame.head(n)
head(frame, n) ==
    [frame EXCEPT !.rows = SubSeq(@, 1, IF Len(@) < n THEN Len(@) ELSE n)]

-----------------------------------------------------------------------------
(* The environment.  A pass reads each file and the clock once, in its call  *)
(* of the loader that reads them, so a change that falls within a pass has   *)
(* the effect of the same change just before or just after the pass: the     *)
(* files and the clock change between passes.                                *)

ChangeProjections ==
    /\ pc = "idle"
    /\ projections_csv' \in ProjectionsFiles \ {projections_csv}
    /\ UNCHANGED <<now, ticks, results_csv, LAST_UPDATED, cache, pc, error, messages,
                   projections_data, last_updated, results_data, player_filter,
                   metric_filter, sportsbook_filter, confidence_filter,
                   filtered_projections, indexer, sorted_projections, download, top_bets,
                   summary, writes, returned, before, tables, hashes>>

ChangeResults ==
    /\ pc = "idle"
    /\ results_csv' \in ResultsFiles \ {results_csv}
    /\ UNCHANGED <<now, ticks, projections_csv, LAST_UPDATED, cache, pc, error, messages,
                   projections_data, last_updated, results_data, player_filter,
                   metric_filter, sportsbook_filter, confidence_filter,
                   filtered_projections, indexer, sorted_projections, download, top_bets,
                   summary, writes, returned, before, tables, hashes>>

Tick ==
    /\ pc = "idle"
    /\ ticks < MaxTicks
    /\ \E d \in Durations : now' = now + d
    /\ ticks' = ticks + 1
    /\ UNCHANGED <<projections_csv, results_csv, LAST_UPDATED, cache, pc, error, messages,
                   projections_data, last_updated, results_data, player_filter,
                   metric_filter, sportsbook_filter, confidence_filter,
                   filtered_projections, indexer, sorted_projections, download, top_bets,
                   summary, writes, returned, before, tables, hashes>>

-----------------------------------------------------------------------------
(* One render pass: the script runs from its first line to run_streamlit_app's end *)

files == <<projections_csv, results_csv>>
clock == <<now, ticks>>
widgets == <<player_filter, metric_filter, sportsbook_filter, confidence_filter>>
outputs == <<filtered_projections, indexer, sorted_projections, download, top_bets, summary>>
history == <<returned, before>>
aside == <<tables, hashes>>

\* lines 1-18 and 158-159: the module body, which binds LAST_UPDATED anew (line 8)
ScriptStart ==
    /\ pc = "idle"
    /\ pc' = "load_projections"
    /\ LAST_UPDATED' = NoFreshness
    /\ writes' = 0
    /\ UNCHANGED <<files, clock, cache, error, messages, projections_data, last_updated,
                   results_data, widgets, outputs, history, aside>>

\* line 87, through the cache of line 26
LoadProjections ==
    /\ pc = "load_projections"
    /\ LET hit == CacheHit(cache, now)
           r == IF hit THEN cache[1].value
                ELSE load_projections_data(projections_csv, LAST_UPDATED, now)
       IN /\ projections_data' = r.data
          /\ last_updated' = r.timestamp
          /\ messages' = messages \cup r.messages
          /\ returned' = <<[data |-> r.data, timestamp |-> r.timestamp]>>
          /\ before' = returned
          /\ IF hit
             THEN UNCHANGED <<LAST_UPDATED, cache, writes>>
             ELSE /\ LAST_UPDATED' = r.LAST_UPDATED
                  /\ cache' = <<[value |-> [data |-> r.data, timestamp |-> r.timestamp,
                                             messages |-> r.messages],
                                  expires |-> now + TTL]>>
                  /\ writes' = writes + (IF r.wrote THEN 1 ELSE 0)
    /\ pc' = "load_results"
    /\ UNCHANGED <<files, clock, error, results_data, widgets, outputs, aside>>

\* line 88 with a results loader that stamps the freshness state as well
LoadResults_stamps ==
    /\ pc = "load_results"
    /\ LET r == load_results_data(results_csv)
       IN /\ results_data' = r.data
          /\ messages' = messages \cup r.messages
    /\ LAST_UPDATED' = [LAST_UPDATED EXCEPT !.timestamp = strftime(now)]
    /\ pc' = "check"
    /\ UNCHANGED <<files, clock, cache, error, projections_data, last_updated,
                   widgets, outputs, writes, history, aside>>

\* line 88
LoadResults ==
    /\ pc = "load_results"
    /\ LET r == load_results_data(results_csv)
       IN /\ results_data' = r.data
          /\ messages' = messages \cup r.messages
    /\ pc' = "check"
    /\ UNCHANGED <<files, clock, LAST_UPDATED, cache, error, projections_data, last_updated,
                   widgets, outputs, writes, history, aside>>

\* lines 90-92
CheckEmpty ==
    /\ pc = "check"
    /\ IF IsEmpty(projections_data) /\ IsEmpty(results_data)
       THEN /\ messages' = messages \cup {"No data to display"}
            /\ pc' = "done"
       ELSE /\ messages' = messages
            /\ pc' = "widgets"
    /\ UNCHANGED <<files, clock, LAST_UPDATED, cache, error, projections_data, last_updated,
                   results_data, widgets, outputs, writes, history, aside>>

\* lines 95-116: the sidebar; a multiselect returns some of its options, which are the
\* column's values, the defaults being all of them, "" and (0, 100)
Widgets ==
    /\ pc = "widgets"
    /\ messages' = messages \cup (IF last_updated /= None THEN {"Last Updated"} ELSE {})
    /\ player_filter' \in Patterns
    /\ metric_filter' \in SUBSET Unique(projections_data, "Metric")
    /\ sportsbook_filter' \in SUBSET Unique(projections_data, "Bookmaker")
    /\ confidence_filter' \in ConfidenceRanges
    /\ pc' = "filter"
    /\ UNCHANGED <<files, clock, LAST_UPDATED, cache, error, projections_data, last_updated,
                   results_data, outputs, writes, history, aside>>

\* lines 119-124
ApplyFilters ==
    /\ pc = "filter"
    /\ IF ~projections_data.columns
       THEN /\ error' = "KeyError"
            /\ pc' = "crashed"
            /\ UNCHANGED filtered_projections
       ELSE IF NameColumnIsFloat(projections_data)
       THEN /\ error' = "AttributeError"
            /\ pc' = "crashed"
            /\ UNCHANGED filtered_projections
       ELSE LET Keep(row) == RowPasses(row, player_filter, metric_filter,
                                       sportsbook_filter, confidence_filter)
            IN /\ filtered_projections' = Frame(SelectSeq(projections_data.rows, Keep))
               /\ pc' = "sort"
               /\ UNCHANGED error
    /\ UNCHANGED <<files, clock, LAST_UPDATED, cache, messages, projections_data,
                   last_updated, results_data, widgets, indexer, sorted_projections,
                   download, top_bets, summary, writes, history, aside>>

\* line 127
SortValues ==
    /\ pc = "sort"
    /\ indexer' \in SortIndexers(filtered_projections.rows)
    /\ sorted_projections' = Frame(Take(filtered_projections.rows, indexer'))
    /\ pc' = "show"
    /\ UNCHANGED <<files, clock, LAST_UPDATED, cache, error, messages, projections_data,
                   last_updated, results_data, widgets, filtered_projections, download,
                   top_bets, summary, writes, history, aside>>

\* lines 130-144
Show ==
    /\ pc = "show"
    /\ download' = to_csv(sorted_projections)
    /\ top_bets' = head(sorted_projections, TOP_N)
    /\ pc' = "summary"
    /\ UNCHANGED <<files, clock, LAST_UPDATED, cache, error, messages, projections_data,
                   last_updated, results_data, widgets, filtered_projections, indexer,
                   sorted_projections, summary, writes, history, aside>>

\* lines 147-156
Summary ==
    /\ pc = "summary"
    /\ summary' = IF ~IsEmpty(results_data) THEN calculate_win_loss_summary(results_data)
                  ELSE None
    /\ pc' = "done"
    /\ UNCHANGED <<files, clock, LAST_UPDATED, cache, error, messages, projections_data,
                   last_updated, results_data, widgets, filtered_projections, indexer,
                   sorted_projections, download, top_bets, writes, history, aside>>

\* the pass is over, by its return or by the exception; its namespace is dropped
Finish ==
    /\ pc \in {"done", "crashed"}
    /\ pc' = "idle"
    /\ error' = "none"
    /\ messages' = {}
    /\ projections_data' = EmptyFrame
    /\ last_updated' = None
    /\ results_data' = EmptyFrame
    /\ player_filter' = <<>>
    /\ metric_filter' = {}
    /\ sportsbook_filter' = {}
    /\ confidence_filter' = <<SLIDER_MIN, SLIDER_MAX>>
    /\ filtered_projections' = EmptyFrame
    /\ indexer' = <<>>
    /\ sorted_projections' = EmptyFrame
    /\ download' = <<>>
    /\ top_bets' = EmptyFrame
    /\ summary' = None
    /\ UNCHANGED <<files, clock, LAST_UPDATED, cache, writes, history, aside>>

Locals ==
    /\ error = "none"
    /\ messages = {}
    /\ projections_data = EmptyFrame
    /\ last_updated = None
    /\ results_data = EmptyFrame
    /\ player_filter = <<>>
    /\ metric_filter = {}
    /\ sportsbook_filter = {}
    /\ confidence_filter = <<SLIDER_MIN, SLIDER_MAX>>
    /\ filtered_projections = EmptyFrame
    /\ indexer = <<>>
    /\ sorted_projections = EmptyFrame
    /\ download = <<>>
    /\ top_bets = EmptyFrame
    /\ summary = None

Init ==
    /\ now = StartTime
    /\ ticks = 0
    /\ projections_csv \in ProjectionsFiles
    /\ results_csv \in ResultsFiles
    /\ LAST_UPDATED = NoFreshness
    /\ cache = None
    /\ pc = "idle"
    /\ Locals
    /\ writes = 0
    /\ returned = None
    /\ before = None
    /\ tables = <<>>
    /\ hashes = <<>>

Next ==
    \/ ChangeProjections
    \/ ChangeResults
    \/ Tick
    \/ ScriptStart
    \/ LoadProjections
    \/ LoadResults
    \/ CheckEmpty
    \/ Widgets
    \/ ApplyFilters
    \/ SortValues
    \/ Show
    \/ Summary
    \/ Finish

Spec == Init /\ [][Next]_vars

-----------------------------------------------------------------------------
(* The filter and the sort on their own: any frame, then lines 95-127 *)

InitFilter ==
    /\ now = StartTime
    /\ ticks = 0
    /\ projections_csv = AbsentFile
    /\ results_csv = AbsentFile
    /\ LAST_UPDATED = NoFreshness
    /\ cache = None
    /\ pc = "widgets"
    /\ error = "none"
    /\ messages = {}
    /\ projections_data \in FilterFrames
    /\ last_updated = None
    /\ results_data = Frame(<<[Result |-> "Win"]>>)
    /\ player_filter = <<>>
    /\ metric_filter = {}
    /\ sportsbook_filter = {}
    /\ confidence_filter = <<SLIDER_MIN, SLIDER_MAX>>
    /\ filtered_projections = EmptyFrame
    /\ indexer = <<>>
    /\ sorted_projections = EmptyFrame
    /\ download = <<>>
    /\ top_bets = EmptyFrame
    /\ summary = None
    /\ writes = 0
    /\ returned = None
    /\ before = None
    /\ tables = <<>>
    /\ hashes = <<>>

NextFilter ==
    \/ Widgets
    \/ ApplyFilters
    \/ SortValues

SpecFilter == InitFilter /\ [][NextFilter]_vars

-----------------------------------------------------------------------------
(* calculate_win_loss_summary on its own: any results frame *)

CallSummary ==
    /\ pc = "call_summary"
    /\ summary' = calculate_win_loss_summary(results_data)
    /\ pc' = "returned"
    /\ UNCHANGED <<files, clock, LAST_UPDATED, cache, error, messages, projections_data,
                   last_updated, results_data, widgets, filtered_projections, indexer,
                   sorted_projections, download, top_bets, writes, history, aside>>

InitSummary ==
    /\ now = StartTime
    /\ ticks = 0
    /\ projections_csv = AbsentFile
    /\ results_csv = AbsentFile
    /\ LAST_UPDATED = NoFreshness
    /\ cache = None
    /\ pc = "call_summary"
    /\ error = "none"
    /\ messages = {}
    /\ projections_data = EmptyFrame
    /\ last_updated = None
    /\ results_data \in ResultFrames
    /\ player_filter = <<>>
    /\ metric_filter = {}
    /\ sportsbook_filter = {}
    /\ confidence_filter = <<SLIDER_MIN, SLIDER_MAX>>
    /\ filtered_projections = EmptyFrame
    /\ indexer = <<>>
    /\ sorted_projections = EmptyFrame
    /\ download = <<>>
    /\ top_bets = EmptyFrame
    /\ summary = None
    /\ writes = 0
    /\ returned = None
    /\ before = None
    /\ tables = <<>>
    /\ hashes = <<>>

SpecSummary == InitSummary /\ [][CallSummary]_vars

-----------------------------------------------------------------------------
(* calculate_data_hash on its own: any two frames *)

CallHash ==
    /\ pc = "call_hash"
    /\ hashes' = <<HashOf(tables[1]), HashOf(tables[2])>>
    /\ pc' = "hashed"
    /\ UNCHANGED <<files, clock, LAST_UPDATED, cache, error, messages, projections_data,
                   last_updated, results_data, widgets, outputs, writes, history, tables>>

InitHash ==
    /\ now = StartTime
    /\ ticks = 0
    /\ projections_csv = AbsentFile
    /\ results_csv = AbsentFile
    /\ LAST_UPDATED = NoFreshness
    /\ cache = None
    /\ pc = "call_hash"
    /\ Locals
    /\ writes = 0
    /\ returned = None
    /\ before = None
    /\ tables \in HashFrames \X HashFrames
    /\ hashes = <<>>

SpecHash == InitHash /\ [][CallHash]_vars

-----------------------------------------------------------------------------
(* The freshness state and the loader: C1, C2, C4, C10 *)

\* the step that calls load_projections_data (line 87)
LoadStep == pc = "load_projections" /\ pc' = "load_results"

\* the step that runs the module body
StartStep == pc = "idle" /\ pc' = "load_projections"

\* the cached entry was stored less than TTL seconds ago
Fresh == cache /= None /\ now - (cache[1].expires - TTL) < TTL

\* the table the projections file holds now
FileTable == convert_confidence(read_projections_csv(projections_csv))

\* a printed timestamp read back as a wall-clock time
WallSeconds(ts) ==
    ts[1] * DAY + ((ts[2] % 12) + (IF ts[5] = "PM" THEN 12 ELSE 0)) * HOUR
    + ts[3] * MINUTE + ts[4]

\* C1: in every step LAST_UPDATED["timestamp"] changes only if LAST_UPDATED["hash"]
\* changes in that step, and two successive loads that return the same table return
\* the same timestamp
C1_TimestampFollowsFingerprint ==
    [][/\ LAST_UPDATED'.timestamp /= LAST_UPDATED.timestamp
            => LAST_UPDATED'.hash /= LAST_UPDATED.hash
       /\ (LoadStep /\ returned /= None /\ projections_data' = returned[1].data)
            => last_updated' = returned[1].timestamp]_vars

\* the file is present and holds a table other than the one the load before returned
ContentChanged ==
    /\ LoadStep
    /\ projections_csv.exists
    /\ returned /= None
    /\ FileTable /= returned[1].data
    /\ HashOf(FileTable) /= LAST_UPDATED.hash

\* C2 as stated: after a change of the table the next load returns a timestamp that
\* differs from and is later than the one before, and the stored hash is the new one
C2_ChangedTableAdvancesTimestamp ==
    [][(ContentChanged /\ returned[1].timestamp /= None) =>
          /\ last_updated' /= None
          /\ last_updated' /= returned[1].timestamp
          /\ WallSeconds(last_updated') > WallSeconds(returned[1].timestamp)
          /\ LAST_UPDATED'.hash = HashOf(FileTable)]_vars

\* C2, amended: after a change of the table, a load that the cache does not answer
\* returns the new table with the time of the load as its timestamp, and stores the
\* new table's hash with that timestamp
C2_UncachedLoadStampsChangedTable ==
    [][(ContentChanged /\ ~Fresh) =>
          /\ projections_data' = FileTable
          /\ last_updated' = strftime(now)
          /\ LAST_UPDATED' = [hash |-> HashOf(FileTable), timestamp |-> strftime(now)]]_vars

\* a load has returned a changed table with a new timestamp
C2_Witness ==
    /\ pc = "load_results"
    /\ projections_csv.exists
    /\ before /= None
    /\ before[1].timestamp /= None
    /\ returned[1].data = FileTable
    /\ returned[1].data /= before[1].data
    /\ returned[1].timestamp = strftime(now)
    /\ returned[1].timestamp /= before[1].timestamp
    /\ LAST_UPDATED.hash = HashOf(FileTable)

\* C4 as stated: with the projections file absent, every load returns the empty table
\* and no timestamp, and leaves LAST_UPDATED as it was
C4_AbsentFileLoadsEmpty ==
    [][(LoadStep /\ ~projections_csv.exists) =>
          /\ projections_data' = EmptyFrame
          /\ last_updated' = None
          /\ LAST_UPDATED' = LAST_UPDATED]_vars

\* C4, amended: with the projections file absent, every load leaves LAST_UPDATED as it
\* was, and a load that the cache does not answer returns the empty table and no
\* timestamp and reports the missing file
C4_AbsentFileUncachedLoadsEmpty ==
    [][(LoadStep /\ ~projections_csv.exists) =>
          /\ LAST_UPDATED' = LAST_UPDATED
          /\ ~Fresh => /\ projections_data' = EmptyFrame
                       /\ last_updated' = None
                       /\ "Projections CSV file not found" \in messages']_vars

\* the file went away after a load of a table, and the next load returned nothing
C4_Witness ==
    /\ pc = "load_results"
    /\ ~projections_csv.exists
    /\ before /= None
    /\ before[1].timestamp /= None
    /\ projections_data = EmptyFrame
    /\ last_updated = None
    /\ LAST_UPDATED = NoFreshness
    /\ "Projections CSV file not found" \in messages

\* C10 as stated: a render pass writes LAST_UPDATED exactly once
C10_WrittenExactlyOncePerPass ==
    pc \in {"done", "crashed"} => writes = 1

\* C10, amended: run_streamlit_app writes LAST_UPDATED at most once in a pass, only in
\* its call of load_projections_data, and exactly when the cache does not answer the
\* call and the file is present; outside the call only the module body rebinds it
C10_WrittenAtMostOnceByTheLoader ==
    [][/\ LAST_UPDATED' /= LAST_UPDATED => (LoadStep \/ StartStep)
       /\ writes' /= writes => (LoadStep \/ StartStep)
       /\ LoadStep => /\ writes' \in {0, 1}
                      /\ writes' = 1 <=> (~Fresh /\ projections_csv.exists)
                      /\ writes' = 1 <=> LAST_UPDATED' /= LAST_UPDATED]_vars

\* a pass over a present file has ended without a write: the cache answered
C10_Witness ==
    /\ pc = "done"
    /\ writes = 0
    /\ projections_csv.exists
    /\ last_updated /= None
    /\ projections_data = FileTable

-----------------------------------------------------------------------------
(* The render pass: C3 *)

\* C3: whichever of the two files are present, no step of a render pass raises
C3_PassNeverRaises ==
    pc /= "crashed" /\ error = "none"

-----------------------------------------------------------------------------
(* The filter and the sort: C5, C6, C7 *)

\* text contains sub, letter case aside
SubstringCI(text, sub) ==
    \E i \in 1..(Len(text) - Len(sub) + 1) :
        \A j \in 1..Len(sub) : Lower(sub[j]) = Lower(text[i + j - 1])

NoNullName(frame) == \A k \in 1..Len(frame.rows) : frame.rows[k].PlayerName /= NaN

AllNullNames(frame) ==
    frame.rows /= <<>> /\ \A k \in 1..Len(frame.rows) : frame.rows[k].PlayerName = NaN

\* the four conditions of the filter, read as the words say
Passes(row) ==
    /\ SubstringCI(row.PlayerName, player_filter)
    /\ row.Metric \in metric_filter
    /\ row.Bookmaker \in sportsbook_filter
    /\ 10 * confidence_filter[1] <= row.Confidence
    /\ row.Confidence <= 10 * confidence_filter[2]

\* C5: the filtered result is exactly the rows whose name contains the search text
\* case-insensitively, whose Metric and Bookmaker are selected and whose Confidence is
\* within the inclusive range (stated for the tables in which every row has a name)
C5_FilterKeepsExactlyThePassingRows ==
    (pc = "sort" /\ NoNullName(projections_data))
        => filtered_projections.rows = SelectSeq(projections_data.rows, Passes)

\* the widgets at their defaults
Defaults ==
    /\ player_filter = <<>>
    /\ metric_filter = {projections_data.rows[k].Metric : k \in 1..Len(projections_data.rows)}
    /\ sportsbook_filter =
           {projections_data.rows[k].Bookmaker : k \in 1..Len(projections_data.rows)}
    /\ confidence_filter = <<0, 100>>

Count(rows, row) == Cardinality({k \in 1..Len(rows) : rows[k] = row})

\* a holds the rows of b, each as often as b does
IsReordering(a, b) ==
    /\ Len(a) = Len(b)
    /\ \A k \in 1..Len(b) : Count(a, b[k]) = Count(b, b[k])

Descending(rows) ==
    \A i, j \in 1..Len(rows) : i < j => rows[i].Confidence >= rows[j].Confidence

InPercentRange(frame) ==
    \A k \in 1..Len(frame.rows) :
        0 <= frame.rows[k].Confidence /\ frame.rows[k].Confidence <= 1000

NamedPercent(row) ==
    row.PlayerName /= NaN /\ 0 <= row.Confidence /\ row.Confidence <= 1000

C7_SortIsStable ==
    pc = "show" =>
        \A i, j \in 1..Len(indexer) :
            (/\ i < j
             /\ sorted_projections.rows[i].Confidence = sorted_projections.rows[j].Confidence)
                => indexer[i] < indexer[j]

\* C7, amended: the sorted output holds the rows of the filtered result, each once, in
\* descending order of Confidence; rows of equal Confidence come in any order
C7_SortIsDescendingReordering ==
    pc = "show" =>
        /\ Len(indexer) = Len(filtered_projections.rows)
        /\ \A k \in 1..Len(indexer) : \E i \in 1..Len(indexer) : indexer[i] = k
        /\ sorted_projections.rows =
               [i \in 1..Len(indexer) |-> filtered_projections.rows[indexer[i]]]
        /\ Descending(sorted_projections.rows)

\* two distinct rows of equal Confidence came out of the sort in the other order
C7_Witness ==
    /\ pc = "show"
    /\ Len(indexer) = 3
    /\ \E i, j \in 1..3 :
          /\ i < j
          /\ indexer[i] > indexer[j]
          /\ sorted_projections.rows[i] /= sorted_projections.rows[j]
          /\ sorted_projections.rows[i].Confidence = sorted_projections.rows[j].Confidence
    /\ sorted_projections.rows[1].Confidence > sorted_projections.rows[3].Confidence

-----------------------------------------------------------------------------
(* The summary: C8 *)

Occurrences(value) ==
    Cardinality({k \in 1..Len(results_data.rows) : results_data.rows[k].Result = value})

\* the counts are those of the table and the percentage is 100 * wins / total, or 0
CountsAndPercentage(s) ==
    LET total == Occurrences("Win") + Occurrences("Loss") + Occurrences("Push")
    IN /\ s.Wins = Occurrences("Win")
       /\ s.Losses = Occurrences("Loss")
       /\ s.Pushes = Occurrences("Push")
       /\ IF total > 0
          THEN s.WinPercentage[1] * total = 100 * Occurrences("Win") * s.WinPercentage[2]
          ELSE s.WinPercentage[1] = 0

\* C8 as stated: for every results table, the empty one included, the summary holds
\* the counts of Win, Loss and Push rows and winPct = 100 * wins / total, 0 for total 0
C8_SummaryOfEveryTable ==
    pc = "returned" => (summary /= None /\ CountsAndPercentage(summary[1]))

\* C8, amended: for a results table with at least one row the summary holds the counts
\* of Win, Loss and Push rows and winPct = 100 * wins / total, 0 for total 0; for a
\* table without rows the function returns None
C8_SummaryOfNonEmptyTable ==
    pc = "returned" =>
        IF results_data.rows = <<>> THEN summary = None
        ELSE summary /= None /\ CountsAndPercentage(summary[1])

\* three wins and a loss have been summarised to 75 percent
C8_Witness ==
    /\ pc = "returned"
    /\ results_data.rows = <<[Result |-> "Win"], [Result |-> "Win"],
                             [Result |-> "Win"], [Result |-> "Loss"]>>
    /\ summary /= None
    /\ summary[1].Wins = 3
    /\ summary[1].Losses = 1
    /\ summary[1].WinPercentage = <<75, 1>>

-----------------------------------------------------------------------------
(* The fingerprint: C9 *)

\* C9: the fingerprint of a table is the same on every call, and two tables that hold
\* the same rows in a different order have different fingerprints
C9_FingerprintIsOrderSensitive ==
    pc = "hashed" =>
        /\ tables[1] = tables[2] => hashes[1] = hashes[2]
        /\ hashes[1] = calculate_data_hash(tables[1])
        /\ (/\ tables[1] /= tables[2]
            /\ tables[1].columns = tables[2].columns
            /\ IsReordering(tables[1].rows, tables[2].rows))
              => hashes[1] /= hashes[2]

\* two tables of the same two rows in the two orders have been fingerprinted
C9_Witness ==
    /\ pc = "hashed"
    /\ Len(tables[1].rows) = 2
    /\ tables[1].rows[1] /= tables[1].rows[2]
    /\ tables[2].rows = <<tables[1].rows[2], tables[1].rows[1]>>
    /\ hashes[1] /= hashes[2]
    /\ Len(hashes[1]) = 32

====
